---- MODULE Spec2Model ----
(***************************************************************************)
(* Batching/epoch state machine of cifar100_input.py: class Dataset (the   *)
(* batch sampler) and class AugmentedDataset (the augmenting wrapper with  *)
(* its optional cache).                                                    *)
(*                                                                         *)
(* Python positions are 0-based; TLA+ sequences are 1-based.  cur_order is *)
(* a sequence of length n holding the values 0..n-1, so the Python element *)
(* cur_order[i] is cur_order[i+1] here.  An image is one row of pixels;    *)
(* flip_left_right reverses the row.                                       *)
(***************************************************************************)
EXTENDS Integers, Sequences, FiniteSets, TLC

\* ------------------------------------------------------------------ bounds
\* largest dataset size explored
MaxN == 3
\* largest size of each of two Datasets explored side by side
MaxPair == 2

\* ------------------------------------------------------------ input domains
\* pixel rows: one that changes under a left-right flip, one that does not
Images == { <<0, 1>>, <<1, 1>> }
Labels == {0, 1}
\* requested batch sizes: the legal ones, 1..n, and one above n
BatchSizes(k) == 1..(k + 1)
\* batch sizes with the non-positive ones: the method accepts any integer
AnySizes(k) == (0 - 2)..(k + 1)
\* every example set of k examples
AllSets(k) == { [xs |-> x, ys |-> y] : x \in [1..k -> Images],
                                       y \in [1..k -> Labels] }
\* two example sets of k examples, holding both images and both labels
SomeSets(k) ==
    { [xs |-> [i \in 1..k |-> IF (i + s) % 2 = 0 THEN <<0, 1>> ELSE <<1, 1>>],
       ys |-> [i \in 1..k |-> ((i + s) \div 2) % 2]] : s \in 0..1 }

\* the example sets of k examples a Dataset is built over: every one of them
\* (AllSets) or two of them (SomeSets)
ExampleSets(k, every) == IF every THEN AllSets(k) ELSE SomeSets(k)

VARIABLES
    n,            \* Dataset.n
    xs,           \* Dataset.xs
    ys,           \* Dataset.ys
    batch_start,  \* Dataset.batch_start
    cur_order,    \* Dataset.cur_order
    aug,          \* the AugmentedDataset wrapped around the Dataset
    ret,          \* outcome of the last get_next_batch call
    pass_bs,      \* batch size of a fixed-size bounded pass (0: no such pass)
    pass_sizes,   \* sizes of the batches the pass returned, in call order
    pass_out,     \* concatenation of the index batches the pass returned
    exhausted,    \* "yes" once a single-pass call has raised on the consumed
                  \* pass, "wrapped" after a later multiple_passes call
    eval_data,    \* a second Dataset (CIFAR100Data.eval_data)
    alone         \* the two Datasets as they are when each one's calls run
                  \* on their own, and what the last call returns there

vars == <<n, xs, ys, batch_start, cur_order, aug, ret,
          pass_bs, pass_sizes, pass_out, exhausted, eval_data, alone>>
pair_vars == <<eval_data, alone>>
dataset_vars == <<n, xs, ys>>
pass_vars == <<pass_bs, pass_sizes, pass_out>>

\* --------------------------------------------------------------- helpers
Min(a, b) == IF a < b THEN a ELSE b
Max(a, b) == IF a > b THEN a ELSE b

\* np.random.permutation(k): any arrangement of 0..k-1
Perms(k) == { p \in [1..k -> 0..(k - 1)] :
                \A i, j \in 1..k : p[i] = p[j] => i = j }

\* Python's clamping of a slice bound for a sequence of length len
PyIndex(i, len) == IF i < 0 THEN Max(i + len, 0) ELSE Min(i, len)

\* Python's s[a:b]
PySlice(s, a, b) == SubSeq(s, PyIndex(a, Len(s)) + 1, PyIndex(b, Len(s)))

\* numpy's arr[idx, ...] for an index array idx
Take(arr, idx) == [k \in 1..Len(idx) |-> arr[idx[k] + 1]]

\* tf.image.flip_left_right on one image
flip_left_right(img) == [k \in 1..Len(img) |-> img[Len(img) + 1 - k]]

\* mutant: the flip runs along the batch axis instead of the image's width
augmented_wrong_axis(images, coins) ==
    [k \in 1..Len(images) |->
        IF coins[k] THEN images[Len(images) + 1 - k] ELSE images[k]]

\* tf.map_fn(random_flip_left_right): image k is flipped iff coins[k].
\* The float32 placeholder holds every uint8 pixel value exactly, so the
\* cast leaves the pixel values as they are.
augmented(images, coins) ==
    [k \in 1..Len(images) |->
        IF coins[k] THEN flip_left_right(images[k]) ELSE images[k]]

\* the coin throws of one run of the transform over k images: all of them,
\* and three of them (no image flipped, every image, every other image)
AllCoins(k) == [1..k -> BOOLEAN]
SomeCoins(k) == { [i \in 1..k |-> FALSE], [i \in 1..k |-> TRUE],
                  [i \in 1..k |-> i % 2 = 1] }
Coins(k, every) == IF every THEN AllCoins(k) ELSE SomeCoins(k)

\* ------------------------------------------------------ Dataset.get_next_batch
\* min(batch_size, self.n - self.batch_start)
actual_batch_size(batch_size) == Min(batch_size, n - batch_start)

\* mutant: the epoch test copies the exhaustion test of the single-pass branch
epoch_test_exhausted(batch_size) == actual_batch_size(batch_size) <= 0

\* mutant: the epoch test with <= for <
epoch_test_inclusive(batch_size) == actual_batch_size(batch_size) <= batch_size

\* the epoch test of the multiple_passes branch
epoch_test(batch_size) == actual_batch_size(batch_size) < batch_size

\* mutant: the exhaustion test with < for <=
pass_complete_strict(batch_size) == actual_batch_size(batch_size) < 0

\* the exhaustion test of the single-pass branch
pass_complete(batch_size) == actual_batch_size(batch_size) <= 0

\* mutant: the size test off by one
too_large_off(batch_size) == n + 1 < batch_size

\* the size test on entry
too_large(batch_size) == n < batch_size

\* mutant: the cursor is rewound before the error is raised
Failure_rewinds(status) ==
    [status |-> status, idx |-> <<>>, epoch_done |-> FALSE, arity |-> 0,
     batch_start |-> 0, cur_order |-> cur_order]

\* a raise: no batch, and the sampler as the call found it
Failure(status) ==
    [status |-> status, idx |-> <<>>, epoch_done |-> FALSE, arity |-> 0,
     batch_start |-> batch_start, cur_order |-> cur_order]

\* mutant: the single-pass branch advances the cursor by batch_size
bounded_batch_full_advance(batch_size) ==
    LET batch_end == batch_start + actual_batch_size(batch_size)
    IN  [status |-> "ok",
         idx |-> PySlice(cur_order, batch_start, batch_end),
         epoch_done |-> FALSE,
         arity |-> 2,
         batch_start |-> batch_start + batch_size,
         cur_order |-> cur_order]

\* mutant: the single-pass branch assigns the cursor instead of advancing it
bounded_batch_assign(batch_size) ==
    LET batch_end == batch_start + actual_batch_size(batch_size)
    IN  [status |-> "ok",
         idx |-> PySlice(cur_order, batch_start, batch_end),
         epoch_done |-> FALSE,
         arity |-> 2,
         batch_start |-> actual_batch_size(batch_size),
         cur_order |-> cur_order]

\* single-pass branch
bounded_batch(batch_size) ==
    LET batch_end == batch_start + actual_batch_size(batch_size)
    IN  [status |-> "ok",
         idx |-> PySlice(cur_order, batch_start, batch_end),
         epoch_done |-> FALSE,
         arity |-> 2,
         batch_start |-> batch_start + actual_batch_size(batch_size),
         cur_order |-> cur_order]

\* mutant: the reshuffle ignores reshuffle_after_pass
wrapped_order_always(batch_size, reshuffle_after_pass, perm) ==
    IF epoch_test(batch_size) THEN perm ELSE cur_order

\* order after the epoch test
wrapped_order(batch_size, reshuffle_after_pass, perm) ==
    IF epoch_test(batch_size) /\ reshuffle_after_pass THEN perm ELSE cur_order

\* mutant: the cursor is not reset before the batch is cut
wrapped_start_stale(batch_size) == batch_start

\* batch_start after the epoch test
wrapped_start(batch_size) ==
    IF epoch_test(batch_size) THEN 0 ELSE batch_start

\* mutant: the cursor advances by batch_size instead of actual_batch_size
unbounded_batch_full_advance(batch_size, reshuffle_after_pass, perm) ==
    LET order == wrapped_order(batch_size, reshuffle_after_pass, perm)
        start == wrapped_start(batch_size)
        batch_end == start + batch_size
    IN  [status |-> "ok",
         idx |-> PySlice(order, start, batch_end),
         epoch_done |-> epoch_test(batch_size),
         arity |-> 3,
         batch_start |-> start + batch_size,
         cur_order |-> order]

\* mutant: the boundary batch is cut from the old order at the old cursor,
\* before the reshuffle and the reset
unbounded_batch_old_window(batch_size, reshuffle_after_pass, perm) ==
    LET order == wrapped_order(batch_size, reshuffle_after_pass, perm)
        start == wrapped_start(batch_size)
    IN  [status |-> "ok",
         idx |-> PySlice(cur_order, batch_start, batch_start + batch_size),
         epoch_done |-> epoch_test(batch_size),
         arity |-> 3,
         batch_start |-> start + actual_batch_size(batch_size),
         cur_order |-> order]

\* multiple_passes branch
unbounded_batch(batch_size, reshuffle_after_pass, perm) ==
    LET order == wrapped_order(batch_size, reshuffle_after_pass, perm)
        start == wrapped_start(batch_size)
        batch_end == start + batch_size
    IN  [status |-> "ok",
         idx |-> PySlice(order, start, batch_end),
         epoch_done |-> epoch_test(batch_size),
         arity |-> 3,
         batch_start |-> start + actual_batch_size(batch_size),
         cur_order |-> order]

\* the whole method: outcome, returned index batch and the new sampler state
get_next_batch(batch_size, multiple_passes, reshuffle_after_pass, perm) ==
    IF too_large(batch_size) THEN Failure("InvalidArgument")
    ELSE IF ~multiple_passes
         THEN IF pass_complete(batch_size) THEN Failure("ExhaustedError")
              ELSE bounded_batch(batch_size)
         ELSE unbounded_batch(batch_size, reshuffle_after_pass, perm)

NoCall ==
    [via |-> "none", batch_size |-> 0, multiple_passes |-> FALSE,
     reshuffle_after_pass |-> FALSE, status |-> "none", idx |-> <<>>,
     images |-> <<>>, labels |-> <<>>, epoch_done |-> FALSE, arity |-> 0,
     inner_status |-> "none", inner_calls |-> 0, inner_idx |-> <<>>,
     inner_epoch_done |-> FALSE]

\* what a caller of Dataset.get_next_batch observes
DatasetResult(r, batch_size, multiple_passes, reshuffle_after_pass) ==
    [via |-> "Dataset", batch_size |-> batch_size,
     multiple_passes |-> multiple_passes,
     reshuffle_after_pass |-> reshuffle_after_pass,
     status |-> r.status, idx |-> r.idx,
     images |-> Take(xs, r.idx), labels |-> Take(ys, r.idx),
     epoch_done |-> r.epoch_done, arity |-> r.arity,
     inner_status |-> "none", inner_calls |-> 0, inner_idx |-> <<>>,
     inner_epoch_done |-> FALSE]

\* the record of exhaustion after a call with outcome r
Exhaustion(r, multiple_passes) ==
    IF ~multiple_passes /\ r.status = "ExhaustedError" THEN "yes"
    ELSE IF exhausted # "no" /\ multiple_passes /\ r.status = "ok"
         THEN "wrapped"
         ELSE exhausted

\* the values np.random.permutation would hand to the call; they are
\* enumerated on the wrapping path only, the one place where the method can
\* ask for a permutation
Shuffles(batch_size, multiple_passes) ==
    IF /\ ~too_large(batch_size)
       /\ multiple_passes
       /\ epoch_test(batch_size)
    THEN Perms(n) ELSE {cur_order}

\* a call on the Dataset with a batch size drawn from sizes
Dataset_call(sizes) ==
    \E batch_size \in sizes, multiple_passes \in BOOLEAN,
       reshuffle_after_pass \in BOOLEAN :
      \E perm \in Shuffles(batch_size, multiple_passes) :
        LET r == get_next_batch(batch_size, multiple_passes,
                                reshuffle_after_pass, perm)
        IN  /\ batch_start' = r.batch_start
            /\ cur_order' = r.cur_order
            /\ ret' = DatasetResult(r, batch_size, multiple_passes,
                                    reshuffle_after_pass)
            /\ exhausted' = Exhaustion(r, multiple_passes)
            /\ UNCHANGED <<dataset_vars, aug, pass_vars>>

\* a call on the Dataset itself
Dataset_get_next_batch ==
    Dataset_call(BatchSizes(n)) /\ UNCHANGED pair_vars

\* ---------------------------------------------------------- AugmentedDataset
\* Python's None in the fields xs, ys and n of the wrapper is written <<>>,
\* <<>> and 0: values that no cache over n >= 1 examples can hold
NoAug == [constructed |-> FALSE, to_cache |-> FALSE,
          xs |-> <<>>, n |-> 0, ys |-> <<>>]

\* the fields set by AugmentedDataset.__init__
AugmentedFields(to_cache, coins) ==
    IF to_cache
    THEN [constructed |-> TRUE, to_cache |-> TRUE,
          xs |-> augmented(xs, coins), n |-> Len(augmented(xs, coins)),
          ys |-> ys]
    ELSE [constructed |-> TRUE, to_cache |-> FALSE,
          xs |-> <<>>, n |-> 0, ys |-> <<>>]

\* AugmentedDataset.__init__ (a failing transform raises out of the
\* constructor and no object exists, so only the successful run is a step)
AugmentedDataset_init(every) ==
    /\ ~aug.constructed
    /\ \E to_cache \in BOOLEAN :
         \E coins \in (IF to_cache THEN Coins(n, every) ELSE {<<>>}) :
            aug' = AugmentedFields(to_cache, coins)
    /\ UNCHANGED <<dataset_vars, batch_start, cur_order, ret, pass_vars>>
    /\ UNCHANGED <<exhausted, pair_vars>>

\* what a caller of AugmentedDataset.get_next_batch observes, given the
\* outcome r of the wrapped call
AugmentedResult(r, batch_size, multiple_passes, reshuffle_after_pass, coins, sess_fails) ==
    LET status == IF r.status # "ok" THEN r.status
                  ELSE IF r.arity < 3 THEN "IndexError"
                  ELSE IF sess_fails THEN "TransformError"
                  ELSE "ok"
    IN  [via |-> "AugmentedDataset", batch_size |-> batch_size,
         multiple_passes |-> multiple_passes,
         reshuffle_after_pass |-> reshuffle_after_pass,
         status |-> status,
         idx |-> IF status = "ok" THEN r.idx ELSE <<>>,
         images |-> IF status = "ok"
                    THEN augmented(Take(xs, r.idx), coins) ELSE <<>>,
         labels |-> IF status = "ok" THEN Take(ys, r.idx) ELSE <<>>,
         epoch_done |-> IF status = "ok" THEN r.epoch_done ELSE FALSE,
         arity |-> IF status = "ok" THEN 3 ELSE 0,
         inner_status |-> r.status, inner_calls |-> 1, inner_idx |-> r.idx,
         inner_epoch_done |-> r.epoch_done]

\* a call on the wrapper
AugmentedDataset_get_next_batch ==
    /\ aug.constructed
    /\ \E batch_size \in BatchSizes(n), multiple_passes \in BOOLEAN,
          reshuffle_after_pass \in BOOLEAN :
      \E perm \in Shuffles(batch_size, multiple_passes) :
        LET r == get_next_batch(batch_size, multiple_passes,
                                reshuffle_after_pass, perm)
            reached == r.status = "ok" /\ r.arity = 3
        IN
        \E sess_fails \in (IF reached THEN BOOLEAN ELSE {FALSE}) :
        \E coins \in (IF reached /\ ~sess_fails
                       THEN SomeCoins(Len(r.idx)) ELSE {<<>>}) :
            /\ batch_start' = r.batch_start
            /\ cur_order' = r.cur_order
            /\ ret' = AugmentedResult(r, batch_size, multiple_passes,
                                      reshuffle_after_pass, coins, sess_fails)
            /\ exhausted' = Exhaustion(r, multiple_passes)
            /\ UNCHANGED <<dataset_vars, aug, pass_vars, pair_vars>>

\* ------------------------------------------------- two Dataset objects
\* Dataset.get_next_batch on the object self, a record of the attributes
\* Dataset.__init__ sets: the method reads and writes nothing but them
self_get_next_batch(self, batch_size, multiple_passes, reshuffle_after_pass, perm) ==
    LET actual == Min(batch_size, self.n - self.batch_start)
        raise(status) ==
            [status |-> status, idx |-> <<>>, epoch_done |-> FALSE,
             arity |-> 0, batch_start |-> self.batch_start,
             cur_order |-> self.cur_order]
        wrap == actual < batch_size
        order == IF wrap /\ reshuffle_after_pass THEN perm ELSE self.cur_order
        start == IF wrap THEN 0 ELSE self.batch_start
    IN  IF self.n < batch_size THEN raise("InvalidArgument")
        ELSE IF ~multiple_passes
             THEN IF actual <= 0 THEN raise("ExhaustedError")
                  ELSE [status |-> "ok",
                        idx |-> PySlice(self.cur_order, self.batch_start,
                                        self.batch_start + actual),
                        epoch_done |-> FALSE, arity |-> 2,
                        batch_start |-> self.batch_start + actual,
                        cur_order |-> self.cur_order]
             ELSE [status |-> "ok",
                   idx |-> PySlice(order, start, start + batch_size),
                   epoch_done |-> wrap, arity |-> 3,
                   batch_start |-> start + actual,
                   cur_order |-> order]

\* the values np.random.permutation would hand to the call on self,
\* enumerated on the wrapping path only
self_Shuffles(self, batch_size, multiple_passes) ==
    IF /\ batch_size <= self.n
       /\ multiple_passes
       /\ Min(batch_size, self.n - self.batch_start) < batch_size
    THEN Perms(self.n) ELSE {self.cur_order}

\* the object self after a call with outcome r
self_after(self, r) ==
    [self EXCEPT !.batch_start = r.batch_start, !.cur_order = r.cur_order]

\* what the caller of the method on self gets back
self_returns(self, r) ==
    [status |-> r.status, idx |-> r.idx,
     images |-> Take(self.xs, r.idx), labels |-> Take(self.ys, r.idx),
     epoch_done |-> r.epoch_done, arity |-> r.arity]

\* the train Dataset as an object
train_data ==
    [n |-> n, xs |-> xs, ys |-> ys, batch_start |-> batch_start,
     cur_order |-> cur_order]

\* mutant: batch_start is shared between the Dataset objects, a call on one
\* rewinds the other
other_Dataset_rewound(other) == [other EXCEPT !.batch_start = 0]

\* the Dataset object a call is not made on: its attributes are its own
\* (Dataset.__init__ sets them on self), the call leaves them alone
other_Dataset(other) == other

\* a call on train_data while eval_data exists; alone.train takes the same
\* call with the same reshuffle choice (the order the call left behind)
Train_get_next_batch ==
    /\ Dataset_call(BatchSizes(n))
    /\ eval_data' = other_Dataset(eval_data)
    /\ LET a == self_get_next_batch(alone.train, ret'.batch_size,
                                    ret'.multiple_passes,
                                    ret'.reshuffle_after_pass, cur_order')
       IN  alone' = [alone EXCEPT !.train = self_after(alone.train, a),
                                  !.ret = self_returns(alone.train, a)]

\* a call on eval_data while train_data exists; alone.eval takes the same
\* call with the same reshuffle choice
Eval_get_next_batch ==
    \E batch_size \in BatchSizes(eval_data.n), multiple_passes \in BOOLEAN,
       reshuffle_after_pass \in BOOLEAN :
      \E perm \in self_Shuffles(eval_data, batch_size, multiple_passes) :
        LET r == self_get_next_batch(eval_data, batch_size, multiple_passes,
                                     reshuffle_after_pass, perm)
            a == self_get_next_batch(alone.eval, batch_size, multiple_passes,
                                     reshuffle_after_pass, perm)
            got == self_returns(eval_data, r)
        IN  /\ eval_data' = self_after(eval_data, r)
            /\ batch_start' = other_Dataset(train_data).batch_start
            /\ cur_order' = other_Dataset(train_data).cur_order
            /\ ret' = [via |-> "eval_data", batch_size |-> batch_size,
                       multiple_passes |-> multiple_passes,
                       reshuffle_after_pass |-> reshuffle_after_pass,
                       status |-> got.status, idx |-> got.idx,
                       images |-> got.images, labels |-> got.labels,
                       epoch_done |-> got.epoch_done, arity |-> got.arity,
                       inner_status |-> "none", inner_calls |-> 0,
                       inner_idx |-> <<>>, inner_epoch_done |-> FALSE]
            /\ alone' = [alone EXCEPT !.eval = self_after(alone.eval, a),
                                      !.ret = self_returns(alone.eval, a)]
            /\ UNCHANGED <<dataset_vars, aug, pass_vars, exhausted>>

\* ------------------------------------------------------------ specifications
\* Dataset.__init__ over an example set of 1..MaxN examples
DatasetInit(every) ==
    /\ n \in 1..MaxN
    /\ \E d \in ExampleSets(n, every) : xs = d.xs /\ ys = d.ys
    /\ batch_start = 0
    /\ cur_order \in Perms(n)
    /\ aug = NoAug
    /\ ret = NoCall
    /\ exhausted = "no"

\* no second Dataset is looked at
NoPair == [n |-> 0, xs |-> <<>>, ys |-> <<>>, batch_start |-> 0,
           cur_order |-> <<>>]

\* nothing has run on its own
NoAlone ==
    [train |-> NoPair, eval |-> NoPair,
     ret |-> [status |-> "none", idx |-> <<>>, images |-> <<>>,
              labels |-> <<>>, epoch_done |-> FALSE, arity |-> 0]]

Init ==
    /\ DatasetInit(FALSE)
    /\ eval_data = NoPair
    /\ alone = NoAlone
    /\ pass_bs = 0
    /\ pass_sizes = <<>>
    /\ pass_out = <<>>

\* the Dataset under any sequence of calls, whoever makes them
Next == Dataset_get_next_batch

Spec == Init /\ [][Next]_vars

\* the Dataset together with the AugmentedDataset built around it: calls
\* reach the Dataset directly or through the wrapper
AugNext ==
    \/ Dataset_get_next_batch
    \/ AugmentedDataset_init(FALSE)
    \/ AugmentedDataset_get_next_batch

AugSpec == Init /\ [][AugNext]_vars

\* one bounded pass with one fixed batch size in 1..n
PassInit ==
    /\ DatasetInit(FALSE)
    /\ eval_data = NoPair
    /\ alone = NoAlone
    /\ pass_bs \in 1..n
    /\ pass_sizes = <<>>
    /\ pass_out = <<>>

PassCall ==
    LET r == get_next_batch(pass_bs, FALSE, TRUE, cur_order)
    IN  /\ batch_start' = r.batch_start
        /\ cur_order' = r.cur_order
        /\ ret' = DatasetResult(r, pass_bs, FALSE, TRUE)
        /\ pass_sizes' = IF r.status = "ok"
                         THEN Append(pass_sizes, Len(r.idx)) ELSE pass_sizes
        /\ pass_out' = IF r.status = "ok" THEN pass_out \o r.idx ELSE pass_out
        /\ exhausted' = Exhaustion(r, FALSE)
        /\ UNCHANGED <<dataset_vars, aug, pass_bs, pair_vars>>

PassNext == PassCall

PassSpec == PassInit /\ [][PassNext]_vars

\* a stream of multiple_passes calls with one fixed batch size in 1..n, on a
\* fresh Dataset; pass_out holds the indices returned in the current epoch
\* (from the last wrapping call on), pass_sizes the sizes of the batches
\* returned since the last wrapping call
StreamCall ==
    \E reshuffle_after_pass \in BOOLEAN :
      \E perm \in Shuffles(pass_bs, TRUE) :
        LET r == get_next_batch(pass_bs, TRUE, reshuffle_after_pass, perm)
        IN  /\ batch_start' = r.batch_start
            /\ cur_order' = r.cur_order
            /\ ret' = DatasetResult(r, pass_bs, TRUE, reshuffle_after_pass)
            /\ pass_out' = IF r.epoch_done THEN r.idx ELSE pass_out \o r.idx
            /\ pass_sizes' = IF r.epoch_done THEN <<>>
                             ELSE Append(pass_sizes, Len(r.idx))
            /\ exhausted' = Exhaustion(r, TRUE)
            /\ UNCHANGED <<dataset_vars, aug, pass_bs, pair_vars>>

StreamNext == StreamCall

StreamSpec == PassInit /\ [][StreamNext]_vars

\* any calls made before the stream starts: the stream may start from every
\* state the Dataset can reach
StreamWarmup ==
    /\ pass_out = <<>>
    /\ Dataset_call(BatchSizes(n))
    /\ UNCHANGED pair_vars

WarmStreamNext == StreamWarmup \/ StreamCall

WarmStreamSpec == PassInit /\ [][WarmStreamNext]_vars

\* the Dataset under calls with any batch size, non-positive ones included;
\* the exploration stops once the cursor has fallen MaxN below 0
AnySizeCall ==
    /\ batch_start > 0 - MaxN
    /\ Dataset_call(AnySizes(n))
    /\ UNCHANGED pair_vars

AnySizeNext == AnySizeCall

AnySizeSpec == Init /\ [][AnySizeNext]_vars

\* CIFAR100Data.__init__: train_data and eval_data, two Dataset objects over
\* two example sets (train_data over the one that starts with label 0,
\* eval_data over the other one), each with its own order
PairInit ==
    /\ DatasetInit(FALSE)
    /\ n <= MaxPair
    /\ ys[1] = 0
    /\ \E m \in 1..MaxPair : \E d \in SomeSets(m) : \E order \in Perms(m) :
         /\ d.ys[1] # ys[1]
         /\ eval_data = [n |-> m, xs |-> d.xs, ys |-> d.ys,
                         batch_start |-> 0, cur_order |-> order]
    /\ alone = [train |-> train_data, eval |-> eval_data, ret |-> NoAlone.ret]
    /\ pass_bs = 0
    /\ pass_sizes = <<>>
    /\ pass_out = <<>>

\* the two callers' calls in any interleaving
PairNext ==
    \/ Train_get_next_batch
    \/ Eval_get_next_batch

PairSpec == PairInit /\ [][PairNext]_vars

\* construction of the wrapper over every example set
CacheInit ==
    /\ DatasetInit(TRUE)
    /\ eval_data = NoPair
    /\ alone = NoAlone
    /\ pass_bs = 0
    /\ pass_sizes = <<>>
    /\ pass_out = <<>>

CacheNext == AugmentedDataset_init(TRUE)

CacheSpec == CacheInit /\ [][CacheNext]_vars

\* ===================================================================== claims
\* r is a call in the multiple_passes mode (resp. the single-pass mode) with
\* a batch size in 1..n
UnboundedCall(r) == r.multiple_passes /\ r.batch_size \in 1..n
BoundedCall(r) == r.via # "none" /\ ~r.multiple_passes /\ r.batch_size \in 1..n

\* ceil(n / pass_bs)
PassCalls == (n + pass_bs - 1) \div pass_bs

\* C1: over one bounded pass with a fixed batch size in 1..n, exactly
\* ceil(n / batch_size) calls succeed, the batches returned concatenate to the
\* sampler's order, every batch but the last has batch_size indices and the
\* last has n mod batch_size (batch_size when it divides n).
C1_BoundedPassPartitions ==
    LET k == Len(pass_sizes)
    IN  /\ k <= PassCalls
        /\ pass_out = SubSeq(cur_order, 1, Len(pass_out))
        /\ \A i \in 1..k : i < PassCalls => pass_sizes[i] = pass_bs
        /\ k = PassCalls =>
              /\ pass_sizes[k] = (IF n % pass_bs = 0 THEN pass_bs
                                  ELSE n % pass_bs)
              /\ pass_out = cur_order
              /\ \A v \in 0..(n - 1) :
                    Cardinality({i \in 1..Len(pass_out) : pass_out[i] = v}) = 1
        /\ ret.status \in {"none", "ok", "ExhaustedError"}
        /\ ret.status = "ExhaustedError" => k = PassCalls
        /\ k < PassCalls => ret.status = (IF k = 0 THEN "none" ELSE "ok")

\* a pass that ended with a short last batch and was then asked once more
C1_Witness ==
    /\ ret.status = "ExhaustedError"
    /\ Len(pass_sizes) > 1
    /\ n % pass_bs # 0
    /\ pass_out = cur_order

\* C2: a bounded call with a batch size in 1..n made at cursor = n fails with
\* ExhaustedError and leaves cursor and order as they were; a bounded call
\* with a batch size in 1..n fails with ExhaustedError only at cursor = n.
C2_Step ==
    BoundedCall(ret') =>
        /\ batch_start = n =>
              /\ ret'.status = "ExhaustedError"
              /\ batch_start' = batch_start
              /\ cur_order' = cur_order
        /\ ret'.status = "ExhaustedError" => batch_start = n

C2_ExhaustedAtEnd == [][C2_Step]_vars

\* a bounded call has just failed on the consumed pass
C2_Witness ==
    /\ BoundedCall(ret)
    /\ ret.status = "ExhaustedError"
    /\ batch_start = n

\* C3: in either mode and at any cursor, a call with batch_size > n fails with
\* InvalidArgument, returns no batch and leaves cursor and order as they were.
C3_Step ==
    (ret'.via # "none" /\ ret'.batch_size > n) =>
        /\ ret'.status = "InvalidArgument"
        /\ ret'.arity = 0
        /\ ret'.idx = <<>> /\ ret'.images = <<>> /\ ret'.labels = <<>>
        /\ batch_start' = batch_start
        /\ cur_order' = cur_order

C3_TooLargeRejected == [][C3_Step]_vars

\* an oversized request was rejected in the multiple_passes mode, mid-pass
C3_Witness ==
    /\ ret.batch_size > n
    /\ ret.status = "InvalidArgument"
    /\ ret.multiple_passes
    /\ batch_start > 0

C5_Step ==
    UnboundedCall(ret') =>
        (ret'.epoch_done <=> n - batch_start < ret'.batch_size)

C5_EpochFlag == [][C5_Step]_vars

\* a call reported the epoch boundary although examples were left in the pass
C5_Witness ==
    /\ UnboundedCall(ret)
    /\ ret.epoch_done
    /\ ret.status = "ok"
    /\ batch_start > 0

\* C6 as stated: after a multiple_passes call with a batch size in 1..n the
\* cursor is 0 if the call wrapped, else the old cursor plus batch_size.
C6_Step_Original ==
    UnboundedCall(ret') =>
        batch_start' = (IF ret'.epoch_done THEN 0
                        ELSE batch_start + ret'.batch_size)

C6_Step ==
    UnboundedCall(ret') =>
        batch_start' = (IF ret'.epoch_done THEN n - batch_start
                        ELSE batch_start + ret'.batch_size)

C7_Step_Original ==
    (UnboundedCall(ret') /\ ret'.epoch_done) =>
        ret'.idx = PySlice(cur_order, batch_start,
                           batch_start + ret'.batch_size)

C7_BoundaryBatchFromOldOrder == [][C7_Step_Original]_vars

\* C7 amended: on a wrapping call the batch is the window
\* order[0 .. batch_size) of the order the call leaves behind (the fresh
\* permutation when it reshuffles, the unchanged order when it does not): it
\* is cut after the reshuffle and the cursor reset.
C7_Step ==
    (UnboundedCall(ret') /\ ret'.epoch_done) =>
        /\ ret'.idx = SubSeq(cur_order', 1, ret'.batch_size)
        /\ ret'.images = Take(xs, ret'.idx)
        /\ ret'.labels = Take(ys, ret'.idx)

C7_BoundaryBatchFromNewOrder == [][C7_Step]_vars

\* a wrapping call reshuffled to another order and returned its first window
C7_Witness ==
    /\ UnboundedCall(ret)
    /\ ret.epoch_done
    /\ ret.reshuffle_after_pass
    /\ ret.idx = SubSeq(cur_order, 1, ret.batch_size)
    /\ ret.idx[1] # 0

\* C8: the order changes only on a multiple_passes call that wraps with
\* reshuffle_after_pass true; every other call leaves it as it was.
C8_Step ==
    cur_order' # cur_order =>
        /\ ret'.multiple_passes
        /\ ret'.epoch_done
        /\ ret'.reshuffle_after_pass

C8_OrderFrame == [][C8_Step]_vars

\* a call wrapped with the reshuffle disabled
C8_Witness ==
    /\ UnboundedCall(ret)
    /\ ret.epoch_done
    /\ ~ret.reshuffle_after_pass
    /\ ret.status = "ok"

\* C9: whenever the wrapped Dataset call of an AugmentedDataset call succeeds
\* (and the transform itself returns), the AugmentedDataset call succeeds, in
\* the single-pass mode as in the multiple_passes mode, with the labels (and
\* epoch_done) of the inner draw and the transform of its images, the inner
\* method having been called once.
C9_WrapperPassesThrough ==
    (/\ ret.via = "AugmentedDataset"
     /\ ret.inner_status = "ok"
     /\ ret.status # "TransformError") =>
        /\ ret.status = "ok"
        /\ ret.inner_calls = 1
        /\ ret.labels = Take(ys, ret.inner_idx)
        /\ ret.multiple_passes => ret.epoch_done = ret.inner_epoch_done
        /\ \E coins \in AllCoins(Len(ret.inner_idx)) :
              ret.images = augmented(Take(xs, ret.inner_idx), coins)

\* C10: with caching requested, the cached set has the count of the input
\* set, its labels in the same positions, and at each position the transform
\* of the input image at that position; the input set is left as it was.
C10_Step ==
    (~aug.constructed /\ aug'.constructed) =>
        /\ n' = n /\ xs' = xs /\ ys' = ys
        /\ aug'.to_cache =>
              /\ aug'.n = n
              /\ aug'.ys = ys
              /\ Len(aug'.xs) = n
              /\ \A i \in 1..n :
                    aug'.xs[i] \in {xs[i], flip_left_right(xs[i])}

C10_CacheKeepsCountAndLabels == [][C10_Step]_vars

\* a cache was built in which some image came out flipped
C10_Witness ==
    /\ aug.constructed
    /\ aug.to_cache
    /\ n > 1
    /\ aug.xs # xs
    /\ aug.ys = ys


\* C11: with caching requested, the images of every batch the wrapper returns
\* are the cached images at the drawn indices: the transform is not run again
\* and two draws of one index return one image.
C11_BatchesComeFromCache ==
    (/\ aug.constructed /\ aug.to_cache
     /\ ret.via = "AugmentedDataset"
     /\ ret.status = "ok") =>
        ret.images = Take(aug.xs, ret.idx)

\* C12: after any sequence of calls with batch_size >= 1, in any mix of modes
\* and reshuffle flags, failing calls included, 0 <= cursor <= n and the order
\* is a permutation of 0..n-1.
C12_CursorAndOrderInvariant ==
    /\ batch_start \in 0..n
    /\ cur_order \in Perms(n)

\* a reshuffling wrap has left the cursor one short of the end
C12_Witness ==
    /\ ret.status = "ok"
    /\ ret.multiple_passes /\ ret.epoch_done /\ ret.reshuffle_after_pass
    /\ n > 1
    /\ batch_start = n - 1

C15_NoRepeatWithinEpoch ==
    \A i, j \in 1..Len(pass_out) : pass_out[i] = pass_out[j] => i = j

C17_Step ==
    (ret'.via # "none" /\ ret'.batch_size <= 0) =>
        /\ batch_start' = batch_start
        /\ cur_order' = cur_order

C17_NonPositiveSizeIsNoOp == [][C17_Step]_vars

\* C18: whenever a call on the wrapper fails, the failure reaches the caller
\* after a single attempt and the wrapped Dataset's cursor and order are the
\* same as before the call.
C18_Step ==
    (ret'.via = "AugmentedDataset" /\ ret'.status # "ok") =>
        /\ ret'.inner_calls = 1
        /\ batch_start' = batch_start
        /\ cur_order' = cur_order

C18_FailedCallConsumesNothing == [][C18_Step]_vars

\* C14: with two Datasets over two example sets, a call on one never changes
\* the cursor or the order of the other, and under any interleaving of the
\* calls each call returns what it returns when its Dataset's calls run
\* alone with the same reshuffle choices.
C14_Step ==
    /\ ret'.via = "Dataset" => eval_data' = eval_data
    /\ ret'.via = "eval_data" =>
           batch_start' = batch_start /\ cur_order' = cur_order
    /\ alone'.train = train_data'
    /\ alone'.eval = eval_data'
    /\ alone'.ret = [status |-> ret'.status, idx |-> ret'.idx,
                     images |-> ret'.images, labels |-> ret'.labels,
                     epoch_done |-> ret'.epoch_done, arity |-> ret'.arity]

====
